---- MODULE Spec2Model ----
(***************************************************************************)
(* KServe v2 request envelope of ts/torch_handler/request_envelope:        *)
(* the datatype tables, the decode path (parse_input) and the encode path  *)
(* (format_output) of KServev2Envelope, with the context attribute         *)
(* input_request_id that the two paths share.                              *)
(*                                                                         *)
(* Python values are encoded by records whose field name is their type:    *)
(*   [dict |-> f]   a dict (a JSON object), f a function from its keys     *)
(*   [bytes |-> p]  a bytes payload: p.empty whether it is b"", p.utf8     *)
(*                  whether decode() accepts it, p.json whether json.loads *)
(*                  accepts its text, p.obj the value the text denotes     *)
(*   [none |-> TRUE] None                                                  *)
(*   [str |-> <<..>>]  a str, the sequence of its characters               *)
(*   [int |-> n]    an int; n is within 32 bits, so within 64             *)
(*   [complex |-> n]  the complex number of real part n, imaginary part 0  *)
(*   [list |-> <<..>>]  a list                                             *)
(*   [items |-> <<..>>]  a dict whose key order is kept (a row of the      *)
(*                  batch, a decoded nested entry): its items [key, val]   *)
(* A call that raises returns [err |-> <exception name>].                  *)
(***************************************************************************)
EXTENDS Integers, Sequences, FiniteSets

VARIABLES
    input_request_id,  \* the context attribute set by decode, deleted by encode
    op,                \* the latest operation
    status,            \* "ok", or the exception the latest call raised
    rows,              \* the batch handed to parse_input
    headers,           \* Workflow-Request-Type header of each batch position
    parsed,            \* what parse_input returned
    results,           \* the batch of results handed to format_output
    explain,           \* the explain header of each batch position
    manifest,          \* context.manifest at the latest format_output
    response,          \* what format_output returned
    typed,             \* the latest datatype round trip
    decoded,           \* history: ids set on the context since the last format_output
    taken,             \* history: `decoded` as the latest format_output found it
    callIds            \* history: ids in the bodies of the latest parse_input call

vars == <<input_request_id, op, status, rows, headers, parsed, results,
          explain, manifest, response, typed, decoded, taken, callIds>>

\* The longest batch (of rows, and of results).
MaxBatch == 2

-----------------------------------------------------------------------------
(* Python values *)

None == [none |-> TRUE]
Dict(f) == [dict |-> f]
\* The UTF-8 JSON text of the value v, and of the object f.
JsonBytes(v) == [bytes |-> [empty |-> FALSE, utf8 |-> TRUE, json |-> TRUE, obj |-> v]]
Bytes(f) == JsonBytes(Dict(f))
\* UTF-8 text that is not JSON (b"{not json"); b"", which decodes to the
\* empty text, not JSON either; bytes that are not UTF-8 (b"\xff").
BadBytes == [bytes |-> [empty |-> FALSE, utf8 |-> TRUE, json |-> FALSE]]
EmptyBytes == [bytes |-> [empty |-> TRUE, utf8 |-> TRUE, json |-> FALSE]]
NonUtf8Bytes == [bytes |-> [empty |-> FALSE, utf8 |-> FALSE, json |-> FALSE]]
PyInt(n) == [int |-> n]
PyStr(s) == [str |-> s]
PyComplex(n) == [complex |-> n]
PyList(s) == [list |-> s]
Item(k, v) == [key |-> k, val |-> v]
Row(s) == [items |-> s]

IsNone(v) == "none" \in DOMAIN v
IsDict(v) == "dict" \in DOMAIN v
IsBytes(v) == "bytes" \in DOMAIN v
IsList(v) == "list" \in DOMAIN v
IsStr(v) == "str" \in DOMAIN v

\* The str values the code and the requests spell out.
Str_empty == PyStr(<<>>)
Str_id == PyStr(<<"i", "d">>)
Str_nested == PyStr(<<"n", "e", "s", "t", "e", "d">>)
Str_NeSTed == PyStr(<<"N", "e", "S", "T", "e", "d">>)
Str_sequence == PyStr(<<"s", "e", "q", "u", "e", "n", "c", "e">>)
Str_True == PyStr(<<"T", "r", "u", "e">>)
Str_true == PyStr(<<"t", "r", "u", "e">>)
Str_cat == PyStr(<<"c", "a", "t">>)

Ok(v) == [err |-> "none", val |-> v]
Raise(e) == [err |-> e]
Raised(r) == r.err # "none"

\* bool(v): None, {}, b"", "", [] and 0 are falsy.
Truthy(v) ==
    IF IsNone(v) THEN FALSE
    ELSE IF IsDict(v) THEN DOMAIN v.dict # {}
    ELSE IF IsBytes(v) THEN ~v.bytes.empty
    ELSE IF IsStr(v) THEN v.str # <<>>
    ELSE IF IsList(v) THEN v.list # <<>>
    ELSE IF "int" \in DOMAIN v THEN v.int # 0
    ELSE IF "complex" \in DOMAIN v THEN v.complex # 0
    ELSE TRUE

\* x or y
Or(x, y) == IF Truthy(x) THEN x ELSE y

\* row.get(k), on the items of a row
RECURSIVE Get(_, _)
Get(items, k) ==
    IF items = <<>> THEN None
    ELSE IF Head(items).key = k THEN Head(items).val
    ELSE Get(Tail(items), k)

\* A variant of Index0: v[-1].
Index0_Last(v) ==
    IF IsNone(v) THEN Raise("TypeError")
    ELSE IF v.list = <<>> THEN Raise("IndexError")
    ELSE Ok(v.list[Len(v.list)])

\* v[0]
Index0(v) ==
    IF IsNone(v) THEN Raise("TypeError")
    ELSE IF v.list = <<>> THEN Raise("IndexError")
    ELSE Ok(v.list[1])

\* d.get(k) of a JSON object
Field(d, k) == IF k \in DOMAIN d THEN d[k] ELSE None

\* The absent context attribute, and the absent header: get_request_header
\* returns None for it.
NoAttr == "<unset>"
NoHeader == None

-----------------------------------------------------------------------------
(* Type Mapper *)

Datatypes ==
    {"BOOL", "UINT8", "UINT16", "UINT32", "UINT64", "INT8", "INT16", "INT32",
     "INT64", "FP16", "FP32", "FP64", "BYTES"}

_DatatypeToNumpy ==
    [t \in Datatypes |->
        CASE t = "BOOL" -> "bool"
          [] t = "UINT8" -> "uint8"
          [] t = "UINT16" -> "uint16"
          [] t = "UINT32" -> "uint32"
          [] t = "UINT64" -> "uint64"
          [] t = "INT8" -> "int8"
          [] t = "INT16" -> "int16"
          [] t = "INT32" -> "int32"
          [] t = "INT64" -> "int64"
          [] t = "FP16" -> "float16"
          [] t = "FP32" -> "float32"
          [] t = "FP64" -> "float64"
          [] t = "BYTES" -> "byte"]

\* The inverse table, with the two entries added after it is built.
_NumpyToDatatype ==
    LET names == {_DatatypeToNumpy[t] : t \in Datatypes}
    IN  [n \in names \cup {"object", "U"} |->
            IF n \in {"object", "U"} THEN "BYTES"
            ELSE CHOOSE t \in Datatypes : _DatatypeToNumpy[t] = n]

\* np.dtype(name): numpy resolves a type name to a dtype, whose str() is the
\* canonical name and whose kind is one character. "byte" is numpy's name of
\* the C signed char, the dtype int8.
NpDtype(name) ==
    CASE name = "bool" -> [str |-> "bool", kind |-> "b"]
      [] name \in {"uint8", "uint16", "uint32", "uint64"} -> [str |-> name, kind |-> "u"]
      [] name \in {"int8", "int16", "int32", "int64"} -> [str |-> name, kind |-> "i"]
      [] name \in {"float16", "float32", "float64"} -> [str |-> name, kind |-> "f"]
      [] name = "byte" -> [str |-> "int8", kind |-> "i"]

_to_dtype(datatype) ==
    IF datatype \notin DOMAIN _DatatypeToNumpy THEN Raise("KeyError")
    ELSE Ok(NpDtype(_DatatypeToNumpy[datatype]))

_to_datatype(dtype) ==
    LET as_str == IF dtype.str \notin DOMAIN _NumpyToDatatype
                  THEN dtype.kind ELSE dtype.str
    IN  IF as_str \notin DOMAIN _NumpyToDatatype THEN Raise("KeyError")
        ELSE Ok(_NumpyToDatatype[as_str])

-----------------------------------------------------------------------------
(* Envelope Codec: decode *)

\* A variant of Lower: the header compared as it is.
Lower_Same(s) == s

UpperCase ==
    <<"A", "B", "C", "D", "E", "F", "G", "H", "I", "J", "K", "L", "M",
      "N", "O", "P", "Q", "R", "S", "T", "U", "V", "W", "X", "Y", "Z">>
LowerCase ==
    <<"a", "b", "c", "d", "e", "f", "g", "h", "i", "j", "k", "l", "m",
      "n", "o", "p", "q", "r", "s", "t", "u", "v", "w", "x", "y", "z">>

\* The lower case of one character: of a capital letter its small letter,
\* of any other character the character itself.
LowerChar(c) ==
    IF \E i \in 1..26 : UpperCase[i] = c
    THEN LowerCase[CHOOSE i \in 1..26 : UpperCase[i] = c]
    ELSE c

\* str.lower(): every character lowered
Lower(s) == PyStr([i \in 1..Len(s.str) |-> LowerChar(s.str[i])])

\* bool(header): an absent header (None) and "" are falsy.
HeaderSet(workflow_req_type) == Truthy(workflow_req_type)

\* json.loads(body.decode()): decode() raises on bytes that are not UTF-8,
\* json.loads on text that is not JSON; otherwise the value the text denotes.
JsonLoads(body) ==
    IF ~body.bytes.utf8 THEN Raise("UnicodeDecodeError")
    ELSE IF ~body.bytes.json THEN Raise("JSONDecodeError")
    ELSE Ok(body.bytes.obj)

\* "id" in v, for a v that is not a dict: an element of a list, a substring
\* of a str; None and numbers are not containers.
ContainsId(v) ==
    IF IsList(v) THEN Ok(\E i \in 1..Len(v.list) : v.list[i] = Str_id)
    ELSE IF IsStr(v)
    THEN Ok(\E i \in 1..(Len(v.str) - 1) : v.str[i] = "i" /\ v.str[i + 1] = "d")
    ELSE Raise("TypeError")

\* What _from_json raises on a body that is not a dict: TypeError from
\* "id" in v, or from v["id"] when v contains "id"; AttributeError from
\* v.get otherwise.
NotDictError(v) ==
    IF Raised(ContainsId(v)) THEN "TypeError"
    ELSE IF ContainsId(v).val THEN "TypeError"
    ELSE "AttributeError"

\* _from_json(body_list, inputs_key). `set` lists the ids it puts on the
\* context with setattr, in order; they stay there when a later step raises.
FromLoaded(loaded, inputs_key) ==
    IF Raised(loaded) THEN [err |-> loaded.err, set |-> <<>>]
    ELSE IF ~IsDict(loaded.val) THEN [err |-> NotDictError(loaded.val), set |-> <<>>]
    ELSE [err |-> "none",
          val |-> Field(loaded.val.dict, inputs_key),
          set |-> IF "id" \in DOMAIN loaded.val.dict
                  THEN <<loaded.val.dict.id>> ELSE <<>>]

_from_json(body_list, inputs_key) ==
    FromLoaded(IF IsBytes(body_list[1]) THEN JsonLoads(body_list[1])
               ELSE Ok(body_list[1]),
               inputs_key)

\* extra_kwargs of one row: the key _from_json reads.
InputsKey(workflow_req_type) ==
    IF HeaderSet(workflow_req_type) THEN "outputs" ELSE "inputs"

\* A variant of RowBody: row.get("body") or row.get("data").
RowBody_BodyFirst(row) == Or(Get(row.items, "body"), Get(row.items, "data"))

\* The body of a row that is not nested.
RowBody(row) == Or(Get(row.items, "data"), Get(row.items, "body"))

\* self._from_json([body], **extra_kwargs)[0]
\* r[0] of what _from_json returned, the ids it set kept
First(r) ==
    IF Raised(r) THEN r
    ELSE IF Raised(Index0(r.val)) THEN [err |-> Index0(r.val).err, set |-> r.set]
    ELSE [err |-> "none", val |-> Index0(r.val).val, set |-> r.set]

FirstOf(body, inputs_key) == First(_from_json(<<body>>, inputs_key))

\* The dict comprehension over row.items() of a nested row.
\* One item of the comprehension: node_name mapped to the "data" of r.
NestedStep(acc, node_name, r) ==
    IF Raised(r) THEN [err |-> r.err, set |-> acc.set \o r.set]
    ELSE [err |-> "none",
          val |-> Append(acc.val, Item(node_name, Field(r.val.dict, "data"))),
          set |-> acc.set \o r.set]

RECURSIVE NestedFromJson(_, _)
NestedFromJson(items, acc) ==
    IF items = <<>> \/ Raised(acc) THEN acc
    ELSE NestedFromJson(Tail(items),
            NestedStep(acc, Head(items).key, FirstOf(Head(items).val, "outputs")))

\* One pass of the loop of _batch_from_json: the entry appended for a row.
\* The dict the comprehension built.
NestedEntry(r) == IF Raised(r) THEN r ELSE [r EXCEPT !.val = Row(r.val)]

RowFromJson(row, workflow_req_type) ==
    IF HeaderSet(workflow_req_type) /\ Lower(workflow_req_type) = Str_nested
    THEN NestedEntry(NestedFromJson(row.items,
                        [err |-> "none", val |-> <<>>, set |-> <<>>]))
    ELSE FirstOf(RowBody(row), InputsKey(workflow_req_type))

\* data_list.append(entry)
BatchStep(acc, r) ==
    IF Raised(r) THEN [err |-> r.err, set |-> acc.set \o r.set]
    ELSE [err |-> "none", val |-> Append(acc.val, r.val), set |-> acc.set \o r.set]

RECURSIVE BatchLoop(_, _, _)
BatchLoop(rs, hs, acc) ==
    IF rs = <<>> \/ Raised(acc) THEN acc
    ELSE BatchLoop(Tail(rs), Tail(hs), BatchStep(acc, RowFromJson(Head(rs), Head(hs))))

\* A variant of _batch_from_json: extra_kwargs made once, before the loop, so
\* that the key of a workflow position stays for the positions after it.
_batch_from_json_sticky(rs, hs) ==
    BatchLoop(rs,
              [i \in 1..Len(hs) |->
                  IF ~HeaderSet(hs[i]) /\ \E j \in 1..(i - 1) : HeaderSet(hs[j])
                  THEN Str_sequence ELSE hs[i]],
              [err |-> "none", val |-> <<>>, set |-> <<>>])

_batch_from_json(rs, hs) ==
    BatchLoop(rs, hs, [err |-> "none", val |-> <<>>, set |-> <<>>])

-----------------------------------------------------------------------------
(* Envelope Codec: encode *)

\* np.array(data).shape, for a scalar or a rectangular nest of lists
RECURSIVE NpShape(_)
NpShape(v) ==
    IF ~IsList(v) THEN <<>>
    ELSE <<Len(v.list)>> \o (IF v.list = <<>> THEN <<>> ELSE NpShape(v.list[1]))

\* np.array(data) accepts a scalar and a nest of lists in which the elements
\* of every list have one shape; it raises ValueError on any other nest.
RECURSIVE Rectangular(_)
Rectangular(v) ==
    IF ~IsList(v) THEN TRUE
    ELSE \A i \in 1..Len(v.list) :
            /\ Rectangular(v.list[i])
            /\ NpShape(v.list[i]) = NpShape(v.list[1])

\* The scalars of a result (an int, a str, a complex number, or a nest of
\* lists of them), in row-major order.
RECURSIVE Leaves(_)
Leaves(v) ==
    IF ~IsList(v) THEN <<v>>
    ELSE IF v.list = <<>> THEN <<>>
    ELSE Leaves(v.list[1]) \o Leaves(PyList(Tail(v.list)))

\* The Python type of a scalar.
Kind(x) ==
    CASE "int" \in DOMAIN x -> "int"
      [] "str" \in DOMAIN x -> "str"
      [] "complex" \in DOMAIN x -> "complex"

LeafKinds(v) == {Kind(Leaves(v)[i]) : i \in 1..Len(Leaves(v))}

\* The characters a str array keeps for a scalar: those of a str (one at
\* least), 21 for an int64, 64 for a complex128.
Chars(x) ==
    CASE Kind(x) = "str" -> IF x.str = <<>> THEN 1 ELSE Len(x.str)
      [] Kind(x) = "int" -> 21
      [] Kind(x) = "complex" -> 64

MaxChars(v) ==
    CHOOSE n \in {Chars(Leaves(v)[i]) : i \in 1..Len(Leaves(v))} :
        \A i \in 1..Len(Leaves(v)) : Chars(Leaves(v)[i]) <= n

\* np.array(data).dtype: the common type numpy promotes the scalars to. A
\* str among them makes a str array, whose str(dtype) is "<U" followed by
\* the number of characters; else a complex number makes it complex128;
\* else the ints make it int64; an array of no scalar is float64.
NpDtypeOf(v) ==
    IF "str" \in LeafKinds(v) THEN [str |-> "<U", chars |-> MaxChars(v), kind |-> "U"]
    ELSE IF "complex" \in LeafKinds(v) THEN [str |-> "complex128", kind |-> "c"]
    ELSE IF "int" \in LeafKinds(v) THEN [str |-> "int64", kind |-> "i"]
    ELSE [str |-> "float64", kind |-> "f"]

DigitChars == <<"0", "1", "2", "3", "4", "5", "6", "7", "8", "9">>

\* The decimal text of an int.
RECURSIVE Digits(_)
Digits(n) ==
    IF n < 0 THEN <<"-">> \o Digits(-n)
    ELSE IF n < 10 THEN <<DigitChars[n + 1]>>
    ELSE Digits(n \div 10) \o <<DigitChars[(n % 10) + 1]>>

\* The text of a scalar: "2" of 2, "(1+0j)" of 1+0j, "0j" of 0j.
TextOf(x) ==
    CASE Kind(x) = "str" -> x
      [] Kind(x) = "int" -> PyStr(Digits(x.int))
      [] Kind(x) = "complex" ->
            IF x.complex = 0 THEN PyStr(<<"0", "j">>)
            ELSE PyStr(<<"(">> \o Digits(x.complex) \o <<"+", "0", "j", ")">>)

\* A scalar as an element of an array of the dtype: its text in a str
\* array, the complex number it equals in a complex array, itself otherwise.
Cast(x, dtype) ==
    IF dtype.kind = "U" THEN TextOf(x)
    ELSE IF dtype.kind = "c" /\ Kind(x) = "int" THEN PyComplex(x.int)
    ELSE x

\* The scalars of `leaves`, each as an element of an array of the dtype.
CastAll(leaves, dtype) == [i \in 1..Len(leaves) |-> Cast(leaves[i], dtype)]

\* ndarray.flatten().tolist(): the elements of the array in row-major order
Flatten(v) == CastAll(Leaves(v), NpDtypeOf(v))

\* A variant of TensorName: the header compared in any letter case.
TensorName_AnyCase(explain0) ==
    IF explain0 \in {Str_True, Str_true} THEN "explain" ELSE "predict"

\* output_data["name"], from the explain header of batch position 0
TensorName(explain0) == IF explain0 = Str_True THEN "explain" ELSE "predict"

\* A variant of TensorData: flattened whatever the shape.
TensorData_Flat(data) == PyList(Flatten(data))

\* output_data["data"]: flattened only when the shape is not empty
TensorData(data) ==
    IF NpShape(data) # <<>> THEN PyList(Flatten(data)) ELSE data

\* output_data, once _to_datatype has returned or raised
Tensor(data, explain0, datatype) ==
    IF Raised(datatype) THEN datatype
    ELSE Ok(Dict([name |-> TensorName(explain0),
                  shape |-> NpShape(data),
                  datatype |-> datatype.val,
                  data |-> TensorData(data)]))

_to_json(data, explain0) ==
    IF ~Rectangular(data) THEN Raise("ValueError")
    ELSE Tensor(data, explain0, _to_datatype(NpDtypeOf(data)))

\* output.append(item)
OutputStep(output, item) ==
    IF Raised(item) THEN item ELSE Ok(Append(output.val, item.val))

RECURSIVE BatchToJsonLoop(_, _, _)
BatchToJsonLoop(data, explain0, output) ==
    IF data = <<>> \/ Raised(output) THEN output
    ELSE BatchToJsonLoop(Tail(data), explain0,
            OutputStep(output, _to_json(Head(data), explain0)))

_batch_to_json(data, explain0) == BatchToJsonLoop(data, explain0, Ok(<<>>))

\* context.get_request_id(0), context.model_name, and the manifest of a model
RequestId0 == "r0"
ContextModelName == "wf-node"
Manifest == Dict([model |-> [modelName |-> "bert", modelVersion |-> "1"]])
Manifests == {None, Manifest}

\* response["id"]
ResponseId(attr) == IF attr # NoAttr THEN attr ELSE RequestId0

\* A variant of AttrAfterFormat: the attribute read and not deleted.
AttrAfterFormat_Kept(attr) == attr

\* The context attribute after format_output went through the id branch.
AttrAfterFormat(attr) == NoAttr

\* [response], once _batch_to_json has returned or raised
Envelope(outputs, attr, mf) ==
    IF Raised(outputs) THEN outputs
    ELSE IF Truthy(mf)
    THEN Ok(<<[id |-> ResponseId(attr),
               model_name |-> mf.dict.model.modelName,
               model_version |-> mf.dict.model.modelVersion,
               outputs |-> outputs.val]>>)
    ELSE Ok(<<[id |-> ResponseId(attr),
               model_name |-> ContextModelName,
               outputs |-> outputs.val]>>)

\* format_output(data): the list it returns, or the exception of _to_json.
FormatOutput(data, attr, mf, explain0) ==
    Envelope(_batch_to_json(data, explain0), attr, mf)

-----------------------------------------------------------------------------
(* The requests and results the operations are run on *)

D0 == Dict([name |-> "input-0", shape |-> <<2>>, datatype |-> "INT64",
            data |-> PyList(<<66, 108>>)])
D1 == Dict([name |-> "input-1", shape |-> <<1>>, datatype |-> "FP32",
            data |-> PyList(<<7>>)])

BodyA == [id |-> "a", inputs |-> PyList(<<D0, D1>>), outputs |-> PyList(<<D1, D0>>)]
BodyB == [id |-> "b", inputs |-> PyList(<<D1>>), outputs |-> PyList(<<D0>>)]
BodyIn == [inputs |-> PyList(<<D0, D1>>)]
BodyOut == [id |-> "b", outputs |-> PyList(<<D1>>)]
BodyNone == [inputs |-> PyList(<<>>)]

RowA == Row(<<Item("data", Dict(BodyA))>>)
RowBoth == Row(<<Item("data", Dict(BodyIn)), Item("body", Dict(BodyB))>>)
RowFalsy == Row(<<Item("data", Dict(<<>>)), Item("body", Bytes(BodyB))>>)
RowOut == Row(<<Item("body", Dict(BodyOut))>>)
RowBad == Row(<<Item("data", BadBytes)>>)
RowEmpty == Row(<<Item("data", EmptyBytes), Item("body", Dict(BodyB))>>)
RowNone == Row(<<Item("body", Dict(BodyNone))>>)
RowUtf8 == Row(<<Item("data", NonUtf8Bytes)>>)
RowNull == Row(<<Item("data", JsonBytes(None))>>)
RowArray == Row(<<Item("data", JsonBytes(PyList(<<>>)))>>)
RowNested == Row(<<Item("nodeA", Dict(BodyA)), Item("nodeB", Bytes(BodyB))>>)

\* The rows whose body is a JSON object, and the rows whose body is not.
Rows == {RowA, RowBoth, RowFalsy, RowOut, RowEmpty, RowNone, RowNested}
BrokenRows == {RowBad, RowUtf8, RowNull, RowArray}
Headers == {NoHeader, Str_empty, Str_sequence, Str_nested, Str_NeSTed}

\* Every row of Rows as a standalone request and as a flat workflow request;
\* every row of BrokenRows as a standalone request; the empty header and the
\* nested header, in two letter cases, on a row of one body and on a row of
\* node bodies.
Requests ==
    {[row |-> r, header |-> h] : r \in Rows, h \in {NoHeader, Str_sequence}}
    \cup {[row |-> r, header |-> NoHeader] : r \in BrokenRows}
    \cup {[row |-> r, header |-> h] : r \in {RowA, RowNested}, h \in Headers}

Matrix == PyList(<<PyList(<<PyInt(1), PyInt(2)>>), PyList(<<PyInt(3), PyInt(4)>>)>>)
Mixed == PyList(<<PyInt(2), Str_cat>>)
Ragged == PyList(<<PyList(<<PyInt(1), PyInt(2)>>), PyList(<<PyInt(3)>>)>>)
\* The results np.array and _to_datatype accept, and those one of them rejects.
ResultValues == {PyInt(2), Matrix, Str_cat, Mixed}
RejectedValues == {PyComplex(1), Ragged}
ExplainHeaders == {NoHeader, Str_True, Str_true}

\* Every result of ResultValues with the explain header absent and "True";
\* every result of RejectedValues with the header absent; the header in
\* another letter case on the scalar.
Inferences ==
    {[value |-> v, explain |-> h] : v \in ResultValues, h \in {NoHeader, Str_True}}
    \cup {[value |-> v, explain |-> NoHeader] : v \in RejectedValues}
    \cup {[value |-> PyInt(2), explain |-> h] : h \in ExplainHeaders}

TypeTags == Datatypes \cup {"FP999"}

-----------------------------------------------------------------------------
(* History *)

\* The ids of `ids` in the order they were last set, after `set` is set too.
RECURSIVE Note(_, _)
Note(ids, set) ==
    IF set = <<>> THEN ids
    ELSE Note(Append(SelectSeq(ids, LAMBDA x : x # Head(set)), Head(set)), Tail(set))

\* The ids the bodies of a batch contain.
DictIds(v) == IF IsDict(v) /\ "id" \in DOMAIN v.dict THEN {v.dict.id} ELSE {}

BodyIds(v) ==
    IF IsBytes(v) THEN (IF v.bytes.json THEN DictIds(v.bytes.obj) ELSE {})
    ELSE DictIds(v)

RowIds(row) == UNION {BodyIds(row.items[j].val) : j \in 1..Len(row.items)}

IdsIn(rs) == UNION {RowIds(rs[i]) : i \in 1..Len(rs)}

-----------------------------------------------------------------------------
(* Operations *)

Init ==
    /\ input_request_id = NoAttr
    /\ op = "init"
    /\ status = "ok"
    /\ rows = <<>>
    /\ headers = <<>>
    /\ parsed = <<>>
    /\ results = <<>>
    /\ explain = <<>>
    /\ manifest = None
    /\ response = <<>>
    /\ typed = None
    /\ decoded = <<>>
    /\ taken = <<>>
    /\ callIds = {}

\* The serving pipeline puts one more request in the batch it will hand to
\* parse_input, and the request's header in the context.
Receive(req) ==
    /\ op = "receive" => Len(rows) < MaxBatch
    /\ rows' = IF op = "receive" THEN Append(rows, req.row) ELSE <<req.row>>
    /\ headers' = IF op = "receive" THEN Append(headers, req.header) ELSE <<req.header>>
    /\ op' = "receive"
    /\ status' = "ok"
    /\ parsed' = <<>>
    /\ results' = <<>>
    /\ explain' = <<>>
    /\ manifest' = None
    /\ response' = <<>>
    /\ typed' = None
    /\ taken' = <<>>
    /\ UNCHANGED <<input_request_id, decoded, callIds>>

\* parse_input, r being what _batch_from_json returned, raised and set.
parse_input(r) ==
    /\ op' = "parse_input"
    /\ status' = IF Raised(r) THEN r.err ELSE "ok"
    /\ parsed' = IF Raised(r) THEN <<>> ELSE r.val
    /\ input_request_id' =
          IF r.set = <<>> THEN input_request_id ELSE r.set[Len(r.set)]
    /\ decoded' = Note(decoded, r.set)
    /\ callIds' = IdsIn(rows)
    /\ results' = <<>>
    /\ explain' = <<>>
    /\ manifest' = None
    /\ response' = <<>>
    /\ typed' = None
    /\ taken' = <<>>
    /\ UNCHANGED <<rows, headers>>

\* The handler produces the result of one more batch position.
Infer(inf) ==
    /\ op = "infer" => Len(results) < MaxBatch
    /\ results' = IF op = "infer" THEN Append(results, inf.value) ELSE <<inf.value>>
    /\ explain' = IF op = "infer" THEN Append(explain, inf.explain) ELSE <<inf.explain>>
    /\ op' = "infer"
    /\ status' = "ok"
    /\ rows' = <<>>
    /\ headers' = <<>>
    /\ parsed' = <<>>
    /\ manifest' = None
    /\ response' = <<>>
    /\ typed' = None
    /\ taken' = <<>>
    /\ UNCHANGED <<input_request_id, decoded, callIds>>

\* format_output under the manifest mf, r being what it returns or raises.
format_output(mf, r) ==
    /\ op' = "format_output"
    /\ status' = IF Raised(r) THEN r.err ELSE "ok"
    /\ response' = IF Raised(r) THEN <<>> ELSE r.val
    /\ input_request_id' = AttrAfterFormat(input_request_id)
    /\ manifest' = mf
    /\ taken' = decoded
    /\ decoded' = <<>>
    /\ rows' = <<>>
    /\ headers' = <<>>
    /\ parsed' = <<>>
    /\ typed' = None
    /\ UNCHANGED <<results, explain, callIds>>

\* context.get_request_header(0, "explain")
Explain0 == IF explain = <<>> THEN NoHeader ELSE explain[1]

\* _to_datatype of what _to_dtype returned
Back(dtype) == IF Raised(dtype) THEN dtype ELSE _to_datatype(dtype.val)

\* _to_dtype of a wire tag, then _to_datatype of the dtype it gives.
RoundTrip(tag) ==
    /\ op' = "round_trip"
    /\ status' = "ok"
    /\ typed' = [tag |-> tag, dtype |-> _to_dtype(tag), back |-> Back(_to_dtype(tag))]
    /\ rows' = <<>>
    /\ headers' = <<>>
    /\ parsed' = <<>>
    /\ results' = <<>>
    /\ explain' = <<>>
    /\ manifest' = None
    /\ response' = <<>>
    /\ taken' = <<>>
    /\ UNCHANGED <<input_request_id, decoded, callIds>>

Next ==
    \/ \E req \in Requests : Receive(req)
    \/ parse_input(_batch_from_json(rows, headers))
    \/ \E inf \in Inferences : Infer(inf)
    \/ \E mf \in Manifests :
          format_output(mf, FormatOutput(results, input_request_id, mf, Explain0))
    \/ \E tag \in TypeTags : RoundTrip(tag)

Spec == Init /\ [][Next]_vars

-----------------------------------------------------------------------------
(* What the claims speak of *)

Positions == 1..Len(rows)
ParsedOk == op = "parse_input" /\ status = "ok"
FormattedOk == op = "format_output" /\ status = "ok"

\* The JSON object of a wire body, parsed or still bytes.
WireObject(body) == IF IsBytes(body) THEN body.bytes.obj.dict ELSE body.dict

\* The first descriptor of the list under `key` of a wire body; None when
\* the key is missing or its list is empty.
FirstUnder(body, key) ==
    LET l == Field(WireObject(body), key)
    IN  IF IsNone(l) \/ l.list = <<>> THEN None ELSE l.list[1]

\* The "data" field of the first descriptor under "outputs" of a node body.
NodeData(body) ==
    LET d == FirstUnder(body, "outputs")
    IN  IF IsNone(d) THEN None ELSE Field(d.dict, "data")

\* The header names a nested request, in any letter case.
IsNested(h) ==
    /\ IsStr(h)
    /\ Len(h.str) = 6
    /\ \A i \in 1..6 :
          h.str[i] \in {<<"n", "e", "s", "t", "e", "d">>[i],
                        <<"N", "E", "S", "T", "E", "D">>[i]}

\* The header is absent or empty.
NoWorkflow(h) == h \in {NoHeader, Str_empty}

\* The key the claims expect a position to be read under.
KeyFor(h) == IF NoWorkflow(h) THEN "inputs" ELSE "outputs"

DataOf(i) == Get(rows[i].items, "data")
BodyOf(i) == Get(rows[i].items, "body")

\* A wire body that is a JSON object.
WellFormed(body) ==
    IsDict(body) \/ (IsBytes(body) /\ body.bytes.json /\ IsDict(body.bytes.obj))

Outputs == response[1].outputs

-----------------------------------------------------------------------------
(* C1: the identifier handshake *)

\* C1 as stated: after parse_input decodes a body that contains "id": X, the
\* next format_output emits X, for every body with an id that was decoded.
C1_EmitsEveryDecodedId ==
    FormattedOk => \A i \in 1..Len(taken) : response[1].id = taken[i]

\* C1, amended: the id pending on the context is the id of the body with an
\* id that was decoded last; the next format_output that returns emits it, or
\* get_request_id(0) when no id was decoded since the format_output before;
\* format_output leaves no id pending, whether it returns or raises.
C1_Handshake ==
    /\ decoded # <<>> => input_request_id = decoded[Len(decoded)]
    /\ decoded = <<>> => input_request_id = NoAttr
    /\ (ParsedOk /\ rows # <<>>) =>
          LET n == Len(rows)
          IN  (~HeaderSet(headers[n]) \/ ~IsNested(headers[n]))
              /\ "id" \in DOMAIN WireObject(RowBody(rows[n]))
              => input_request_id = WireObject(RowBody(rows[n])).id
    /\ op = "format_output" => input_request_id = NoAttr
    /\ FormattedOk =>
          response[1].id = IF taken # <<>> THEN taken[Len(taken)] ELSE RequestId0

\* Two bodies with different ids were decoded, and format_output emitted the
\* id of the later one.
C1_Witness ==
    /\ FormattedOk
    /\ taken = <<"a", "b">>
    /\ response[1].id = "b"
    /\ input_request_id = NoAttr

-----------------------------------------------------------------------------
(* C2: the datatype round trip *)

\* C2: for each of the 13 wire datatype tags, _to_dtype and then _to_datatype
\* of the dtype it gives return the tag.
C2_RoundTrip ==
    (op = "round_trip" /\ typed.tag \in Datatypes) => typed.back = Ok(typed.tag)

-----------------------------------------------------------------------------
(* C3: standalone batches *)

Standalone == \A i \in Positions : headers[i] = NoHeader

\* C3 as stated: for a batch of standalone requests parse_input returns one
\* entry per batch position, in order, the entry of position i being the whole
\* list of descriptors under "inputs" of the body of row i.
C3_WholeInputsList ==
    (ParsedOk /\ Standalone) =>
        /\ Len(parsed) = Len(rows)
        /\ \A i \in Positions :
              parsed[i] = Field(WireObject(RowBody(rows[i])), "inputs")

\* C3, amended: for a batch of standalone requests parse_input, when it
\* returns, returns one entry per batch position, in order, the entry of
\* position i being the first descriptor alone of the list under "inputs" of
\* the body of row i.
C3_FirstDescriptor ==
    (ParsedOk /\ Standalone) =>
        /\ Len(parsed) = Len(rows)
        /\ \A i \in Positions :
              /\ parsed[i] = FirstUnder(RowBody(rows[i]), "inputs")
              /\ IsDict(parsed[i])

\* A standalone batch of two different rows was decoded, one of them with two
\* descriptors under "inputs".
C3_Witness ==
    /\ ParsedOk /\ Standalone
    /\ Len(rows) = 2 /\ rows[1] = RowA /\ rows[2] = RowFalsy
    /\ parsed = <<D0, D1>>
    /\ Len(BodyA.inputs.list) = 2

-----------------------------------------------------------------------------
(* C4: "data" and "body" *)

NotNestedAt(i) == ~IsNested(headers[i])

\* C4 as stated: at a position that is not nested and whose row has a truthy
\* "body" and a truthy "data", the wire body is taken from "body".
C4_BodyFirst ==
    ParsedOk =>
        \A i \in Positions :
            (NotNestedAt(i) /\ Truthy(DataOf(i)) /\ Truthy(BodyOf(i))) =>
                parsed[i] = FirstUnder(BodyOf(i), InputsKey(headers[i]))

\* C4, amended: at a position that is not nested the wire body is taken from
\* "data" when "data" is truthy, also when "body" is truthy too; "body" is
\* used only when "data" is absent or falsy.
C4_DataFirst ==
    ParsedOk =>
        \A i \in Positions :
            NotNestedAt(i) =>
                parsed[i] = FirstUnder(IF Truthy(DataOf(i)) THEN DataOf(i) ELSE BodyOf(i),
                                       InputsKey(headers[i]))

\* A row with a truthy "data" and a truthy "body" was decoded from "data".
C4_Witness ==
    /\ ParsedOk
    /\ \E i \in Positions :
          /\ NotNestedAt(i) /\ Truthy(DataOf(i)) /\ Truthy(BodyOf(i))
          /\ parsed[i] = FirstUnder(DataOf(i), InputsKey(headers[i]))
          /\ parsed[i] # FirstUnder(BodyOf(i), InputsKey(headers[i]))

-----------------------------------------------------------------------------
(* C5: scalar results *)

IsIntScalar(v) == "int" \in DOMAIN v

\* C5 as stated: a scalar integer result v, with no explain header at
\* position 0, gives a tensor named "predict" of shape [] and data [v].
C5_ScalarWrapped ==
    (FormattedOk /\ results # <<>> /\ explain[1] = NoHeader) =>
        \A k \in 1..Len(results) :
            IsIntScalar(results[k]) =>
                /\ Outputs[k].dict.name = "predict"
                /\ Outputs[k].dict.shape = <<>>
                /\ Outputs[k].dict.data = PyList(<<results[k]>>)

\* C5, amended: such a result gives a tensor named "predict" of shape []
\* and data v itself, not a sequence holding v.
C5_ScalarUnwrapped ==
    (FormattedOk /\ results # <<>> /\ explain[1] = NoHeader) =>
        \A k \in 1..Len(results) :
            IsIntScalar(results[k]) =>
                /\ Outputs[k].dict.name = "predict"
                /\ Outputs[k].dict.shape = <<>>
                /\ Outputs[k].dict.data = results[k]

\* The scalar 2 was encoded with no explain header.
C5_Witness ==
    /\ FormattedOk /\ results = <<PyInt(2)>> /\ explain = <<NoHeader>>
    /\ Outputs[1].dict.data = PyInt(2)

-----------------------------------------------------------------------------
(* C6: nested workflow requests *)

\* C6: at a position whose header is "nested" in any letter case the decoded
\* entry maps each node name of the row, and nothing else, to the "data" of
\* the first descriptor under "outputs" of that node's body.
C6_NestedEntry ==
    ParsedOk =>
        \A i \in Positions :
            IsNested(headers[i]) =>
                parsed[i] = Row([j \in 1..Len(rows[i].items) |->
                                   Item(rows[i].items[j].key,
                                        NodeData(rows[i].items[j].val))])

\* A row of two node bodies was decoded under the header "NeSTed".
C6_Witness ==
    /\ ParsedOk
    /\ \E i \in Positions :
          /\ headers[i] = Str_NeSTed /\ rows[i] = RowNested
          /\ parsed[i] = Row(<<Item("nodeA", PyList(<<7>>)), Item("nodeB", PyList(<<66, 108>>))>>)

-----------------------------------------------------------------------------
(* C7: the key read at each position *)

\* C7: at a position that is not nested the body is read under "outputs"
\* when the position's own header is present and not empty, under "inputs"
\* when it is absent or empty, whatever the headers of the other positions.
C7_KeyPerPosition ==
    ParsedOk =>
        \A i \in Positions :
            NotNestedAt(i) =>
                parsed[i] = FirstUnder(RowBody(rows[i]), KeyFor(headers[i]))

\* A batch whose first position is a workflow request and whose second is
\* standalone, the same row at both, was decoded under the two keys.
C7_Witness ==
    /\ ParsedOk
    /\ rows = <<RowA, RowA>> /\ headers = <<Str_sequence, NoHeader>>
    /\ parsed = <<D1, D0>>

-----------------------------------------------------------------------------
(* C8: a body without the key *)

HasKeyAt(i) == KeyFor(headers[i]) \in DOMAIN WireObject(RowBody(rows[i]))

\* Nothing but a missing key can make the call fail: no position is nested,
\* every body is a JSON object, and a list that is there is not empty.
OnlyKeysMissing ==
    \A i \in Positions :
        /\ NotNestedAt(i)
        /\ WellFormed(RowBody(rows[i]))
        /\ HasKeyAt(i) => ~IsNone(FirstUnder(RowBody(rows[i]), KeyFor(headers[i])))

\* C8: when the body of a position has no "inputs" key (standalone) or no
\* "outputs" key (workflow), parse_input returns, with None at that position.
C8_MissingKeyTolerated ==
    (op = "parse_input" /\ OnlyKeysMissing) =>
        /\ status = "ok"
        /\ \A i \in Positions : ~HasKeyAt(i) => parsed[i] = None

-----------------------------------------------------------------------------
(* C9: one envelope for the batch *)

\* The scalars of a result are of one Python type.
OneType(v) == Cardinality(LeafKinds(v)) <= 1

\* C9: format_output returns one envelope; its outputs are as many as the
\* results, outputs[k] built from results[k] (its shape; as many data as it has
\* scalars; the scalars themselves in row-major order when they are of one
\* type); every tensor is named from the explain header of position 0 alone.
C9_OneEnvelope ==
    FormattedOk =>
        /\ Len(response) = 1
        /\ Len(Outputs) = Len(results)
        /\ \A k \in 1..Len(results) :
              /\ Outputs[k].dict.name =
                    IF explain[1] = Str_True THEN "explain" ELSE "predict"
              /\ Outputs[k].dict.shape = NpShape(results[k])
              /\ IsList(results[k]) =>
                    Len(Outputs[k].dict.data.list) = Len(Leaves(results[k]))
              /\ OneType(results[k]) =>
                    Outputs[k].dict.data =
                        IF IsList(results[k]) THEN PyList(Leaves(results[k]))
                        ELSE results[k]

\* Two different results were encoded, the explain header "True" at position
\* 0 and absent at position 1.
C9_Witness ==
    /\ FormattedOk
    /\ results = <<Matrix, PyInt(2)>> /\ explain = <<Str_True, NoHeader>>
    /\ Outputs[1].dict.name = "explain" /\ Outputs[2].dict.name = "explain"
    /\ Outputs[1].dict.data = PyList(<<PyInt(1), PyInt(2), PyInt(3), PyInt(4)>>)

-----------------------------------------------------------------------------
(* C10: no stale identifier *)

\* C10: the id a format_output emits is an id contained in the bodies of the
\* latest parse_input call, or get_request_id(0).
C10_NoStaleId ==
    FormattedOk => response[1].id \in callIds \cup {RequestId0}

====
